---- MODULE Spec2Model ----
(***************************************************************************)
(* HiveSight (src/app.py): one binary question is sent num_queries times   *)
(* to the model service, each reply is classified yes / no / invalid, the  *)
(* counts are turned into a percentage, and optionally the explanations    *)
(* are summarised by one more request.                                     *)
(*                                                                         *)
(* A text is a sequence of one-character strings, so that str.strip(),     *)
(* str.lower() and str.startswith() are computed and not assumed.          *)
(* Python indices are 0-based: query k of the code is gateway[k] and       *)
(* tasks[k]; position k of a Python list is element k+1 of the sequence.   *)
(***************************************************************************)
EXTENDS Integers, Sequences, FiniteSets, TLC

VARIABLES
    num_queries,          \* st.number_input "Number of Queries"
    request_explanation,  \* st.checkbox "Request Explanation"
    use_async,            \* st.checkbox "Use Async"
    gateway,              \* what the model service does for query k
    pc,                   \* position of main()
    i,                    \* loop variable of the sequential loop
    tasks,                \* state of the coroutines handed to asyncio.gather
    last_completed,       \* the coroutine that finished most recently, or -1
    raw_responses,
    yes_count,
    no_count,
    valid_responses,
    explanations,
    explanation_summary,
    report,               \* what st.success / st.error shows
    progress,             \* progress_bar.progress / status_text.text calls
    requests,             \* messages.create calls issued for sampling
    summarize_calls,      \* calls of summarize_explanations
    summarize_arg,        \* argument of the last summarize_explanations call
    crash,                \* where an exception left main(), if any
    prev                  \* outcome of the previous press of "Ask Claude"

vars == <<num_queries, request_explanation, use_async, gateway, pc, i, tasks,
          last_completed, raw_responses, yes_count, no_count, valid_responses,
          explanations, explanation_summary, report, progress, requests,
          summarize_calls, summarize_arg, crash, prev>>

\* ------------------------------------------------------------------ bounds
MaxQueries == 3
MaxLen == 4

\* ------------------------------------------------------------------- texts
Whitespace == {" ", "\n"}

UpperToLower ==
    [c \in {"Y", "E", "S", "N", "O"} |->
        CASE c = "Y" -> "y" [] c = "E" -> "e" [] c = "S" -> "s"
          [] c = "N" -> "n" [] c = "O" -> "o"]

\* str.lower()
Lower(s) ==
    [k \in 1..Len(s) |-> IF s[k] \in DOMAIN UpperToLower THEN UpperToLower[s[k]] ELSE s[k]]

RECURSIVE LStrip(_)
LStrip(s) ==
    IF s # <<>> /\ Head(s) \in Whitespace THEN LStrip(Tail(s)) ELSE s

RECURSIVE RStrip(_)
RStrip(s) ==
    IF s # <<>> /\ s[Len(s)] \in Whitespace THEN RStrip(SubSeq(s, 1, Len(s) - 1)) ELSE s

\* str.strip()
Strip(s) == RStrip(LStrip(s))

\* str.startswith(p)
StartsWith(s, p) == Len(s) >= Len(p) /\ SubSeq(s, 1, Len(p)) = p

Yes == <<"y", "e", "s">>
No == <<"n", "o">>

\* the string "Error or no data"
Sentinel ==
    <<"E", "r", "r", "o", "r", " ", "o", "r", " ", "n", "o", " ", "d", "a", "t", "a">>

\* the string "Error summarizing explanations", kept as one token
SummaryError == <<"Error summarizing explanations">>

\* a local name that has not been assigned
Unset == <<"<unassigned>">>

\* iterating a Python str yields its characters, each a str of length one
Chars(s) == [k \in 1..Len(s) |-> <<s[k]>>]

\* ------------------------------------------------- the model service
\* A response of messages.create: it raises, or it returns an object whose
\* content is empty, is not a list, has a first segment without .text, or
\* has a first segment with .text.
Malformed == {"empty", "notlist", "notext"}

Ok(t) == [shape |-> "ok", text |-> t]
Bad(s) == [shape |-> s, text |-> <<>>]

ReplyTexts ==
    { <<" ", "Y", "e", "s">>,         \* " Yes"
      <<"n", "o">>,                   \* "no"
      <<"n", "o", ",", "x">>,         \* "no,x"  an explanation
      <<"m">> }                       \* "m"     neither

Responses ==
    {Ok(t) : t \in ReplyTexts} \cup {Bad(s) : s \in Malformed \cup {"raise"}}

SummaryResponses ==
    {Ok(<<" ", "S">>)} \cup {Bad(s) : s \in Malformed \cup {"raise"}}

\* ------------------------------------------------------------ the gateways
Return(v) == [kind |-> "return", val |-> v]
Raise == [kind |-> "raise", val |-> <<>>]
Fall == [kind |-> "fall", val |-> <<>>]

\* the body of the try block of query_claude
query_claude_try(resp) ==
    IF resp.shape = "raise" THEN Raise
    ELSE IF resp.shape = "ok" THEN Return(Strip(resp.text))
    ELSE Fall

\* query_claude without its except clause: the error reaches the caller
query_claude_NoExcept(resp) ==
    LET b == query_claude_try(resp)
    IN  IF b.kind = "fall" THEN Return(Sentinel) ELSE b

\* query_claude: except Exception swallows the error, then the final return
query_claude(resp) ==
    LET b == query_claude_try(resp)
    IN  IF b.kind = "return" THEN b ELSE Return(Sentinel)

\* the list comprehension putting the failure value in the place of a
\* response without text
segment_text_Tolerant(resp) ==
    IF resp.shape = "ok" THEN Return(Strip(resp.text)) ELSE Return(Sentinel)

\* r.content[0].text.strip() of the list comprehension, for one response
segment_text(resp) ==
    IF resp.shape = "ok" THEN Return(Strip(resp.text)) ELSE Raise

\* the body of the try block of query_claude_async, once gather is over:
\* tk is the state of the coroutines, gw their responses
query_claude_async_try(tk, gw, n) ==
    IF \E k \in 0..(n - 1) : tk[k] = "raised" THEN Raise
    ELSE IF gw[0].shape = "ok"
         THEN IF \E k \in 0..(n - 1) : segment_text(gw[k]).kind = "raise"
              THEN Raise
              ELSE Return([k \in 1..n |-> segment_text(gw[k - 1]).val])
         ELSE Fall

\* query_claude_async: a list of texts, or the str "Error or no data".
\* The value is given as main() iterates it: a str as its characters.
query_claude_async(tk, gw, n) ==
    LET b == query_claude_async_try(tk, gw, n)
    IN  IF b.kind = "return" THEN b ELSE Return(Chars(Sentinel))

\* ---------------------------------------------------------- classification
\* is_valid_response without either test: every text is counted valid
is_valid_response_AcceptsAll(response, req_expl) == TRUE

\* is_valid_response comparing the text as it is, without .lower()
is_valid_response_CaseSensitive(response, req_expl) ==
    IF req_expl
    THEN StartsWith(response, Yes) \/ StartsWith(response, No)
    ELSE response \in {Yes, No}

\* is_valid_response looking for "yes" or "no" anywhere in an explanation
is_valid_response_Contains(response, req_expl) ==
    LET has(s, p) == \E k \in 1..(Len(s) - Len(p) + 1) :
                        SubSeq(s, k, k + Len(p) - 1) = p
    IN  IF req_expl
        THEN has(Lower(response), Yes) \/ has(Lower(response), No)
        ELSE Lower(response) \in {Yes, No}

is_valid_response(response, req_expl) ==
    IF req_expl
    THEN StartsWith(Lower(response), Yes) \/ StartsWith(Lower(response), No)
    ELSE Lower(response) \in {Yes, No}

\* sum() of a list of booleans
\* a count that stops at the first False of the list
RECURSIVE SumBool_StopsAtFalse(_)
SumBool_StopsAtFalse(bs) ==
    IF bs = <<>> THEN 0
    ELSE IF Head(bs) THEN 1 + SumBool_StopsAtFalse(Tail(bs)) ELSE 0

RECURSIVE SumBool(_)
SumBool(bs) ==
    IF bs = <<>> THEN 0 ELSE (IF Head(bs) THEN 1 ELSE 0) + SumBool(Tail(bs))

\* ------------------------------------------------------------ summariser
\* line 179 without the test of valid_responses
should_summarize_IgnoresValid(req_expl, valid) == req_expl

\* line 179 without the test of request_explanation
should_summarize_IgnoresMode(req_expl, valid) == valid > 0

\* line 179 asking for more than one valid response
should_summarize_NeedsTwo(req_expl, valid) == req_expl /\ valid > 1

\* line 179: the condition under which main() calls the summariser
should_summarize(req_expl, valid) == req_expl /\ valid > 0

\* line 186: the condition under which main() computes the statistics
has_valid(valid) == valid > 0

\* summarize_explanations: no try block, so an error of the request leaves
\* the function as an exception
summarize_explanations(resp) ==
    IF resp.shape = "raise" THEN Raise
    ELSE IF resp.shape = "ok" THEN Return(Strip(resp.text))
    ELSE Return(SummaryError)

\* ------------------------------------------------------------ statistics
\* Real numbers are kept in fixed point with three decimals, truncated:
\* 0.987 is 987 and 98.7 (percent) is 98700.
Fix == 1000

\* Integers beyond 32 bits, for the exact distribution function: a sequence
\* of digits in base 10000, least significant first.
Limb == 10000

RECURSIVE BigMul(_, _, _)
BigMul(x, m, carry) ==
    IF x = <<>> THEN (IF carry = 0 THEN <<>> ELSE <<carry>>)
    ELSE LET v == Head(x) * m + carry
         IN  <<v % Limb>> \o BigMul(Tail(x), m, v \div Limb)

RECURSIVE BigAdd(_, _, _)
BigAdd(x, y, carry) ==
    IF x = <<>> /\ y = <<>> THEN (IF carry = 0 THEN <<>> ELSE <<carry>>)
    ELSE LET v == (IF x = <<>> THEN 0 ELSE Head(x))
                    + (IF y = <<>> THEN 0 ELSE Head(y)) + carry
         IN  <<v % Limb>>
               \o BigAdd(IF x = <<>> THEN x ELSE Tail(x),
                         IF y = <<>> THEN y ELSE Tail(y), v \div Limb)

BigLeq(x, y) ==
    LET d(z, k) == IF k <= Len(z) THEN z[k] ELSE 0
        n == IF Len(x) > Len(y) THEN Len(x) ELSE Len(y)
        ks == {k \in 1..n : d(x, k) # d(y, k)}
    IN  \/ ks = {}
        \/ LET top == CHOOSE k \in ks : \A j \in ks : j <= k
           IN  d(x, top) < d(y, top)

RECURSIVE BigTimesPow(_, _, _)
BigTimesPow(x, m, e) ==
    IF e = 0 THEN x ELSE BigTimesPow(BigMul(x, m, 0), m, e - 1)

RECURSIVE Binomial(_, _)
Binomial(n, k) ==
    IF k = 0 \/ k = n THEN 1 ELSE Binomial(n - 1, k - 1) + Binomial(n - 1, k)

\* Fix^(a+b-1) times the distribution function of Beta(a, b) at p / Fix,
\* for integers a, b >= 1: the sum over j = a .. a+b-1 of
\* C(a+b-1, j) p^j (Fix - p)^(a+b-1-j)
RECURSIVE BetaCdfFrom(_, _, _, _)
BetaCdfFrom(j, n, p, acc) ==
    IF j > n THEN acc
    ELSE BetaCdfFrom(j + 1, n, p,
           BigAdd(acc,
                  BigTimesPow(BigTimesPow(<<Binomial(n, j)>>, p, j),
                              Fix - p, n - j),
                  0))

BetaCdf(a, b, p) == BetaCdfFrom(a, a + b - 1, p, <<>>)

\* beta.ppf(q / Fix, a, b), truncated: the greatest p with cdf(p / Fix) <= q / Fix
RECURSIVE BetaPpfBetween(_, _, _, _, _)
BetaPpfBetween(q, a, b, lo, hi) ==
    IF hi - lo <= 1 THEN lo
    ELSE LET mid == (lo + hi) \div 2
         IN  IF BigLeq(BigMul(BetaCdf(a, b, mid), Fix, 0),
                       BigTimesPow(<<q>>, Fix, a + b - 1))
             THEN BetaPpfBetween(q, a, b, mid, hi)
             ELSE BetaPpfBetween(q, a, b, lo, mid)

BetaPpf(q, a, b) == BetaPpfBetween(q, a, b, 0, Fix)

\* scipy.stats.beta.interval(0.95, a, b) for every pair in S, as a table
RECURSIVE BetaIntervalTable(_)
BetaIntervalTable(S) ==
    LET ab == CHOOSE x \in S : TRUE
        row == ab :> <<BetaPpf(25, ab[1], ab[2]), BetaPpf(975, ab[1], ab[2])>>
    IN  IF S = {ab} THEN row ELSE row @@ BetaIntervalTable(S \ {ab})

\* the table for the counts a run can reach
BetaIntervals ==
    BetaIntervalTable({ab \in (1..(MaxQueries + 1)) \X (1..(MaxQueries + 1)) :
                          ab[1] + ab[2] <= MaxQueries + 2})

beta_interval(a, b) == BetaIntervals[<<a, b>>]

\* lines 191-192 without the multiplication
ci_percent_Unscaled(x) == x

\* lines 191-192: ci_low *= 100, ci_high *= 100
ci_percent(x) == x * 100

\* line 187: yes_count / valid_responses * 100
yes_percentage(yes, valid) == ((yes * Fix) \div valid) * 100

\* ------------------------------------------------------------------ state
NoReport == [kind |-> "none"]
NoRun == [mode |-> "none"]

\* main() when "Ask Claude" is pressed: no local is assigned yet
InitRun ==
    /\ pc = "start"
    /\ i = 0
    /\ tasks = [k \in 0..(num_queries - 1) |-> "idle"]
    /\ last_completed = -1
    /\ raw_responses = <<>>
    /\ yes_count = 0
    /\ no_count = 0
    /\ valid_responses = 0
    /\ explanations = <<>>
    /\ explanation_summary = Unset
    /\ report = NoReport
    /\ progress = <<>>
    /\ requests = 0
    /\ summarize_calls = 0
    /\ summarize_arg = <<>>
    /\ crash = "none"
    /\ prev = NoRun

Init ==
    /\ num_queries \in 1..MaxQueries
    /\ request_explanation \in BOOLEAN
    /\ use_async \in BOOLEAN
    /\ gateway \in [0..(num_queries - 1) -> Responses]
    /\ InitRun

config == <<num_queries, request_explanation, gateway>>

\* ------------------------------------------------------- sequential mode
\* lines 154-158
SeqInit ==
    /\ pc = "start"
    /\ ~use_async
    /\ yes_count' = 0
    /\ no_count' = 0
    /\ valid_responses' = 0
    /\ raw_responses' = <<>>
    /\ explanations' = <<>>
    /\ i' = 0
    /\ pc' = IF num_queries > 0 THEN "seq_query" ELSE "summarize"
    /\ UNCHANGED <<config, use_async, tasks, last_completed, explanation_summary,
                   report, progress, requests, summarize_calls, summarize_arg,
                   crash, prev>>

\* query_claude calling messages.create once more after an error
attempts_RetryOnError(resp) == IF resp.shape = "raise" THEN 2 ELSE 1

\* lines 28-32: query_claude calls messages.create once, whatever comes back
attempts(resp) == 1

\* lines 161-172: one query and its classification
SeqQuery ==
    /\ pc = "seq_query"
    /\ LET r == query_claude(gateway[i])
           response_text == r.val
           valid == is_valid_response(response_text, request_explanation)
       IN  /\ requests' = requests + attempts(gateway[i])
           /\ IF r.kind = "raise"
              THEN /\ crash' = "dispatch"
                   /\ pc' = "crashed"
                   /\ UNCHANGED <<raw_responses, yes_count, no_count,
                                  valid_responses, explanations>>
              ELSE /\ raw_responses' = Append(raw_responses, response_text)
                   /\ yes_count' =
                        IF valid /\ StartsWith(Lower(response_text), Yes)
                        THEN yes_count + 1 ELSE yes_count
                   /\ no_count' =
                        IF valid /\ ~StartsWith(Lower(response_text), Yes)
                        THEN no_count + 1 ELSE no_count
                   /\ valid_responses' =
                        IF valid THEN valid_responses + 1 ELSE valid_responses
                   /\ explanations' =
                        IF valid /\ request_explanation
                        THEN Append(explanations, response_text)
                        ELSE explanations
                   /\ pc' = "seq_progress"
                   /\ crash' = crash
    /\ UNCHANGED <<config, use_async, i, tasks, last_completed, explanation_summary,
                   report, progress, summarize_calls, summarize_arg, prev>>

\* line 176 with the loop index as it is
progress_event_ZeroBased(idx, total) == <<idx, total>>

\* line 176: "Processing query {i+1} of {num_queries}"
progress_event(idx, total) == <<idx + 1, total>>

\* lines 174-177, then the next value of range(num_queries)
SeqProgress ==
    /\ pc = "seq_progress"
    /\ progress' = Append(progress, progress_event(i, num_queries))
    /\ IF i + 1 < num_queries
       THEN /\ i' = i + 1
            /\ pc' = "seq_query"
       ELSE /\ i' = i
            /\ pc' = "summarize"
    /\ UNCHANGED <<config, use_async, tasks, last_completed, raw_responses,
                   yes_count, no_count, valid_responses, explanations,
                   explanation_summary, report, requests, summarize_calls,
                   summarize_arg, crash, prev>>

\* --------------------------------------------------------- parallel mode
\* line 64: gather wraps the num_queries coroutines in tasks; each one sends
\* its request when the event loop first runs it
AsyncStart ==
    /\ pc = "start"
    /\ use_async
    /\ tasks' = [k \in 0..(num_queries - 1) |-> "pending"]
    /\ requests' = requests + num_queries
    /\ last_completed' = -1
    /\ pc' = "gather"
    /\ UNCHANGED <<config, use_async, i, raw_responses, yes_count, no_count,
                   valid_responses, explanations, explanation_summary, report,
                   progress, summarize_calls, summarize_arg, crash, prev>>

\* lines 56-62: the request of one coroutine comes back, in any order
TaskComplete(k) ==
    /\ pc = "gather"
    /\ tasks[k] = "pending"
    /\ tasks' = [tasks EXCEPT ![k] =
                    IF gateway[k].shape = "raise" THEN "raised" ELSE "done"]
    /\ last_completed' = k
    /\ UNCHANGED <<config, use_async, pc, i, raw_responses, yes_count, no_count,
                   valid_responses, explanations, explanation_summary, report,
                   progress, requests, summarize_calls, summarize_arg, crash,
                   prev>>

\* lines 64-73 and 135-137: gather wakes query_claude_async when every task
\* is done or as soon as one has raised; asyncio.run cancels what is still
\* pending when query_claude_async returns
AsyncReturn ==
    /\ pc = "gather"
    /\ \/ \A k \in 0..(num_queries - 1) : tasks[k] = "done"
       \/ \E k \in 0..(num_queries - 1) : tasks[k] = "raised"
    /\ LET r == query_claude_async(tasks, gateway, num_queries)
       IN  IF r.kind = "raise"
           THEN /\ crash' = "dispatch"
                /\ pc' = "crashed"
                /\ UNCHANGED raw_responses
           ELSE /\ raw_responses' = r.val
                /\ pc' = "count"
                /\ crash' = crash
    /\ tasks' = [k \in 0..(num_queries - 1) |->
                    IF tasks[k] = "pending" THEN "cancelled" ELSE tasks[k]]
    /\ UNCHANGED <<config, use_async, i, last_completed, yes_count, no_count,
                   valid_responses, explanations, explanation_summary, report,
                   progress, requests, summarize_calls, summarize_arg, prev>>

\* lines 139-152
AsyncCount ==
    /\ pc = "count"
    /\ LET n == Len(raw_responses)
           valid == [k \in 1..n |->
                        is_valid_response(raw_responses[k], request_explanation)]
           yes_responses == [k \in 1..n |->
                        StartsWith(Lower(raw_responses[k]), Yes) /\ valid[k]]
           no_responses == [k \in 1..n |->
                        StartsWith(Lower(raw_responses[k]), No) /\ valid[k]]
       IN  /\ valid_responses' = SumBool(valid)
           /\ yes_count' = SumBool(yes_responses)
           /\ no_count' = SumBool(no_responses)
    /\ explanations' = IF request_explanation THEN raw_responses ELSE <<>>
    /\ pc' = "summarize"
    /\ UNCHANGED <<config, use_async, i, tasks, last_completed, raw_responses,
                   explanation_summary, report, progress, requests,
                   summarize_calls, summarize_arg, crash, prev>>

\* ------------------------------------------------------------- the report
\* lines 179-182
Summarize ==
    /\ pc = "summarize"
    /\ IF should_summarize(request_explanation, valid_responses)
       THEN \E resp \in SummaryResponses :
              LET r == summarize_explanations(resp)
              IN  /\ summarize_calls' = summarize_calls + 1
                  /\ summarize_arg' = explanations
                  /\ IF r.kind = "raise"
                     THEN /\ crash' = "summarize"
                          /\ pc' = "crashed"
                          /\ UNCHANGED explanation_summary
                     ELSE /\ explanation_summary' = r.val
                          /\ pc' = "report"
                          /\ crash' = crash
       ELSE /\ pc' = "report"
            /\ UNCHANGED <<summarize_calls, summarize_arg, explanation_summary,
                           crash>>
    /\ UNCHANGED <<config, use_async, i, tasks, last_completed, raw_responses,
                   yes_count, no_count, valid_responses, explanations, report,
                   progress, requests, prev>>

\* lines 186-214
Report ==
    /\ pc = "report"
    /\ IF has_valid(valid_responses)
       THEN IF request_explanation /\ explanation_summary = Unset
            THEN /\ crash' = "report"
                 /\ pc' = "crashed"
                 /\ UNCHANGED report
            ELSE /\ report' =
                      [kind |-> "numeric",
                       valid |-> valid_responses,
                       yes_percentage |->
                           yes_percentage(yes_count, valid_responses),
                       ci_low |->
                           ci_percent(beta_interval(yes_count + 1, no_count + 1)[1]),
                       ci_high |->
                           ci_percent(beta_interval(yes_count + 1, no_count + 1)[2]),
                       summary |-> IF request_explanation
                                   THEN explanation_summary ELSE <<>>,
                       download |-> raw_responses]
                 /\ pc' = "done"
                 /\ crash' = crash
       ELSE /\ report' = [kind |-> "novalid"]
            /\ pc' = "done"
            /\ crash' = crash
    /\ UNCHANGED <<config, use_async, i, tasks, last_completed, raw_responses,
                   yes_count, no_count, valid_responses, explanations,
                   explanation_summary, progress, requests, summarize_calls,
                   summarize_arg, prev>>

\* The user ticks or unticks "Use Async" and presses "Ask Claude" again on
\* the same question: main() starts over with fresh locals.  The outcome of
\* the finished run is kept for comparison; one such second run is modelled.
Rerun ==
    /\ pc = "done"
    /\ prev = NoRun
    /\ prev' = [mode |-> IF use_async THEN "parallel" ELSE "sequential",
                raw_responses |-> raw_responses,
                yes_count |-> yes_count,
                no_count |-> no_count,
                valid_responses |-> valid_responses,
                kind |-> report.kind]
    /\ use_async' = ~use_async
    /\ pc' = "start"
    /\ i' = 0
    /\ tasks' = [k \in 0..(num_queries - 1) |-> "idle"]
    /\ last_completed' = -1
    /\ raw_responses' = <<>>
    /\ yes_count' = 0
    /\ no_count' = 0
    /\ valid_responses' = 0
    /\ explanations' = <<>>
    /\ explanation_summary' = Unset
    /\ report' = NoReport
    /\ progress' = <<>>
    /\ requests' = 0
    /\ summarize_calls' = 0
    /\ summarize_arg' = <<>>
    /\ crash' = "none"
    /\ UNCHANGED config

Next ==
    \/ SeqInit
    \/ SeqQuery
    \/ SeqProgress
    \/ AsyncStart
    \/ \E k \in 0..(num_queries - 1) : TaskComplete(k)
    \/ AsyncReturn
    \/ AsyncCount
    \/ Summarize
    \/ Report
    \/ Rerun

Spec == Init /\ [][Next]_vars

\* ------------------------------------------------ classification runs
\* Dispatch and counting alone, over batches whose requests all succeed:
\* every single reply up to MaxLen characters, every batch of two to
\* MaxQueries replies over the texts of the terse scenario, and the scenario.
Alphabet == {"y", "e", "s", "n", "o", "Y", " "}

AllTexts(n) == UNION {[1..m -> Alphabet] : m \in 0..n}

ScenarioTexts ==
    { <<"y", "e", "s">>, <<"n", "o">>, <<"m", "a", "y", "b", "e">>,
      <<"Y", "E", "S">>, <<" ", "N", "o", " ">> }

Scenario ==
    << <<"y", "e", "s">>, <<"n", "o">>, <<"m", "a", "y", "b", "e">>,
       <<"Y", "E", "S">>, <<"n", "o">> >>

ClassifyBatches ==
    {<<t>> : t \in AllTexts(MaxLen)}
      \cup UNION {[1..m -> ScenarioTexts] : m \in 2..MaxQueries}
      \cup {Scenario}

InitClassify ==
    /\ request_explanation \in BOOLEAN
    /\ use_async \in BOOLEAN
    /\ \E batch \in ClassifyBatches :
         /\ num_queries = Len(batch)
         /\ gateway = [k \in 0..(Len(batch) - 1) |-> Ok(batch[k + 1])]
    /\ InitRun

NextClassify ==
    \/ SeqInit
    \/ SeqQuery
    \/ SeqProgress
    \/ AsyncStart
    \/ \E k \in 0..(num_queries - 1) : TaskComplete(k)
    \/ AsyncReturn
    \/ AsyncCount

SpecClassify == InitClassify /\ [][NextClassify]_vars

\* --------------------------------------------------- aggregation runs
\* Whole runs over replies that succeed or raise, then one more run in the
\* same mode over the same replies in another order.
AggregateResponses == {r \in Responses : r.shape \in {"ok", "raise"}}

InitAggregate ==
    /\ num_queries \in 1..MaxQueries
    /\ request_explanation \in BOOLEAN
    /\ use_async \in BOOLEAN
    /\ gateway \in [0..(num_queries - 1) -> AggregateResponses]
    /\ InitRun

\* "Ask Claude" is pressed again with the same settings and the service
\* answers the queries with the same responses in another order: main()
\* starts over with fresh locals.  The aggregate of the finished run is
\* kept for comparison; one such second run is modelled.
Permute ==
    /\ pc = "done"
    /\ prev = NoRun
    /\ prev' = [mode |-> IF use_async THEN "parallel" ELSE "sequential",
                raw_responses |-> raw_responses,
                yes_count |-> yes_count,
                no_count |-> no_count,
                valid_responses |-> valid_responses,
                kind |-> report.kind,
                statistics |-> IF report.kind = "numeric"
                               THEN <<report.yes_percentage, report.ci_low,
                                      report.ci_high>>
                               ELSE <<>>]
    /\ \E p \in Permutations(0..(num_queries - 1)) :
         gateway' = [k \in 0..(num_queries - 1) |-> gateway[p[k]]]
    /\ pc' = "start"
    /\ i' = 0
    /\ tasks' = [k \in 0..(num_queries - 1) |-> "idle"]
    /\ last_completed' = -1
    /\ raw_responses' = <<>>
    /\ yes_count' = 0
    /\ no_count' = 0
    /\ valid_responses' = 0
    /\ explanations' = <<>>
    /\ explanation_summary' = Unset
    /\ report' = NoReport
    /\ progress' = <<>>
    /\ requests' = 0
    /\ summarize_calls' = 0
    /\ summarize_arg' = <<>>
    /\ crash' = "none"
    /\ UNCHANGED <<num_queries, request_explanation, use_async>>

NextAggregate ==
    \/ SeqInit
    \/ SeqQuery
    \/ SeqProgress
    \/ AsyncStart
    \/ \E k \in 0..(num_queries - 1) : TaskComplete(k)
    \/ AsyncReturn
    \/ AsyncCount
    \/ Summarize
    \/ Report
    \/ Permute

SpecAggregate == InitAggregate /\ [][NextAggregate]_vars

\* ----------------------------------------------- terms of the properties
Queries == 0..(num_queries - 1)

Failed(k) == gateway[k].shape # "ok"

\* dispatch and counting are over
Counted ==
    \/ pc \in {"summarize", "report", "done"}
    \/ pc = "crashed" /\ crash \in {"summarize", "report"}

\* the trimmed form of a text: what lies between its first and its last
\* character that is not white space
RefTrim(t) ==
    LET ks == {k \in 1..Len(t) : t[k] \notin Whitespace}
    IN  IF ks = {} THEN <<>>
        ELSE SubSeq(t, CHOOSE a \in ks : \A b \in ks : a <= b,
                       CHOOSE a \in ks : \A b \in ks : a >= b)

\* the verdict the specification gives a reply text
RefVerdict(t, explanationMode) ==
    LET n == Lower(RefTrim(t))
    IN  IF explanationMode
        THEN IF StartsWith(n, Yes) THEN "Yes"
             ELSE IF StartsWith(n, No) THEN "No" ELSE "Invalid"
        ELSE IF n = Yes THEN "Yes"
             ELSE IF n = No THEN "No" ELSE "Invalid"

\* the outcome of query k: its trimmed reply text, or the failure value
Outcome(k) == IF Failed(k) THEN Sentinel ELSE RefTrim(gateway[k].text)

\* the verdict of query k
QueryVerdict(k) ==
    IF Failed(k) THEN "Invalid"
    ELSE RefVerdict(gateway[k].text, request_explanation)

Accepted(t) == RefVerdict(t, request_explanation) # "Invalid"

InvalidCount ==
    Cardinality({k \in 1..Len(raw_responses) :
                    ~is_valid_response(raw_responses[k], request_explanation)})

\* ------------------------------------------------------------ properties

\* C1: when exactly one query f fails and the others succeed, the batch is
\* not aborted: the outcome sequence has num_queries entries, every other
\* query contributes its own reply text, and the yes and no counts are
\* those of the replies of the other queries.
C1_FailureContained ==
    Counted =>
      \A f \in Queries :
        (Failed(f) /\ \A k \in Queries \ {f} : ~Failed(k)) =>
          /\ Len(raw_responses) = num_queries
          /\ \A k \in Queries \ {f} : raw_responses[k + 1] = Outcome(k)
          /\ yes_count = Cardinality({k \in Queries : QueryVerdict(k) = "Yes"})
          /\ no_count = Cardinality({k \in Queries : QueryVerdict(k) = "No"})
          /\ valid_responses = yes_count + no_count

\* C2: after dispatch and counting the classified sequence has exactly
\* num_queries entries and yes + no + invalid = num_queries.
C2_Partition ==
    Counted =>
      /\ Len(raw_responses) = num_queries
      /\ yes_count + no_count + InvalidCount = num_queries

\* C3: in either mode, whatever the order of completion, position k of the
\* returned sequence holds the outcome of query k.
C3_OrderPreserved ==
    (pc = "count" \/ Counted) =>
      /\ Len(raw_responses) = num_queries
      /\ \A k \in Queries : raw_responses[k + 1] = Outcome(k)

\* C4: a sequential run and a parallel run over the same question, config
\* and gateway outcomes end with the same outcome sequence, the same counts
\* and the same kind of report.
C4_ModeEquivalence ==
    (pc = "done" /\ prev # NoRun) =>
      /\ raw_responses = prev.raw_responses
      /\ yes_count = prev.yes_count
      /\ no_count = prev.no_count
      /\ valid_responses = prev.valid_responses
      /\ report.kind = prev.kind

\* C5: the texts passed to the summariser are exactly the replies classified
\* Yes or No, in their original order.
C5_SummarizerInput ==
    summarize_calls > 0 => summarize_arg = SelectSeq(raw_responses, Accepted)

\* C6: a failed summarisation request never leaves summarize_explanations as
\* an exception, and the run ends with the numeric report carrying the
\* placeholder as its summary.
C6_SummaryFailureContained ==
    /\ crash # "summarize"
    /\ (pc = "done" /\ explanation_summary = SummaryError) =>
          (report.kind = "numeric" /\ report.summary = SummaryError)

\* C7: when no classified reply is a Yes or a No, the summariser is not
\* called, no statistics are computed and the run ends with the
\* no-valid-responses report.
C7_NoValidResponses ==
    (Counted /\ \A k \in 1..Len(raw_responses) : ~Accepted(raw_responses[k])) =>
      /\ summarize_calls = 0
      /\ explanation_summary = Unset
      /\ pc # "crashed"
      /\ report.kind # "numeric"
      /\ pc = "done" => report = [kind |-> "novalid"]

C7_Witness ==
    /\ pc = "done"
    /\ num_queries = MaxQueries
    /\ \A k \in Queries : gateway[k].shape = "raise"
    /\ request_explanation
    /\ use_async
    /\ prev # NoRun
    /\ prev.kind = "novalid"
    /\ report = [kind |-> "novalid"]

\* C8: the summariser is called exactly once when explanations were
\* requested and some classified reply is a Yes or a No, and never
\* otherwise; when it is called every query has finished.
C8_SummarizerOnce ==
    /\ summarize_calls <= 1
    /\ (pc \in {"report", "done"} \/ (pc = "crashed" /\ crash # "dispatch")) =>
          (summarize_calls = 1 <=>
             (request_explanation
                /\ \E k \in 1..Len(raw_responses) : Accepted(raw_responses[k])))
    /\ summarize_calls = 1 =>
          /\ requests = num_queries
          /\ Len(raw_responses) = num_queries
          /\ use_async => \A k \in Queries : tasks[k] = "done"
          /\ ~use_async => Len(progress) = num_queries

C8_Witness ==
    /\ pc = "done"
    /\ summarize_calls = 1
    /\ num_queries = MaxQueries
    /\ request_explanation
    /\ use_async
    /\ last_completed = 0
    /\ \E k \in 1..Len(raw_responses) : ~Accepted(raw_responses[k])

\* C9: a reply is valid in terse mode iff its trimmed lowercase form is
\* "yes" or "no", in explanation mode iff that form starts with "yes" or
\* with "no"; a valid reply is a Yes when it starts with "yes" and a No
\* otherwise; the counts are the numbers of replies with each verdict.
C9_Classification ==
    /\ \A k \in 1..Len(raw_responses) :
         /\ raw_responses[k] = RefTrim(gateway[k - 1].text)
         /\ is_valid_response(raw_responses[k], request_explanation)
              <=> QueryVerdict(k - 1) # "Invalid"
    /\ pc \in {"seq_query", "seq_progress", "summarize"} =>
         /\ yes_count =
              Cardinality({k \in 1..Len(raw_responses) : QueryVerdict(k - 1) = "Yes"})
         /\ no_count =
              Cardinality({k \in 1..Len(raw_responses) : QueryVerdict(k - 1) = "No"})
         /\ valid_responses = yes_count + no_count
         /\ InvalidCount =
              Cardinality({k \in 1..Len(raw_responses) : QueryVerdict(k - 1) = "Invalid"})

C9_Witness ==
    /\ pc = "summarize"
    /\ ~request_explanation
    /\ use_async
    /\ num_queries = 5
    /\ \A k \in Queries : gateway[k].text = Scenario[k + 1]
    /\ yes_count = 2
    /\ no_count = 2
    /\ InvalidCount = 1

\* C10: no gateway call raises to its caller, whatever the transport error
\* or the malformed shape and at whatever index: the sequential gateway
\* gives main() a value for each query and the parallel gateway gives it a
\* value for the batch.
C10_GatewayNeverRaises ==
    /\ crash # "dispatch"
    /\ pc = "seq_progress" => Len(raw_responses) = i + 1
    /\ pc = "count" => Len(raw_responses) > 0

C10_Witness ==
    /\ pc = "count"
    /\ num_queries = 3
    /\ gateway[0].shape = "ok"
    /\ gateway[1].shape \in Malformed
    /\ gateway[2].shape = "raise"
    /\ tasks[1] = "done"
    /\ tasks[2] = "raised"
    /\ prev # NoRun
    /\ prev.raw_responses[2] = Sentinel
    /\ prev.raw_responses[3] = Sentinel
    /\ raw_responses = Chars(Sentinel)

\* C11: the value a gateway returns for a failed query is never classified
\* valid, in either mode of classification and of dispatch, so a failed
\* query adds nothing to yes_count or no_count.
C11_FailureInvalid ==
    /\ ~use_async =>
         \A k \in 1..Len(raw_responses) :
           Failed(k - 1) =>
             /\ raw_responses[k] = Sentinel
             /\ ~is_valid_response(raw_responses[k], request_explanation)
    /\ (use_async /\ pc \notin {"start", "gather"}
          /\ \E k \in Queries : Failed(k)) =>
         /\ raw_responses = Chars(Sentinel)
         /\ \A k \in 1..Len(raw_responses) :
              ~is_valid_response(raw_responses[k], request_explanation)
    /\ yes_count <= Cardinality({k \in Queries : QueryVerdict(k) = "Yes"})
    /\ no_count <= Cardinality({k \in Queries : QueryVerdict(k) = "No"})

C11_Witness ==
    /\ pc = "done"
    /\ ~use_async
    /\ request_explanation
    /\ num_queries = MaxQueries
    /\ gateway[0].shape = "raise"
    /\ gateway[1].shape \in Malformed
    /\ raw_responses[1] = Sentinel
    /\ raw_responses[2] = Sentinel
    /\ no_count = 1
    /\ valid_responses = 1
    /\ prev # NoRun
    /\ prev.raw_responses = Chars(Sentinel)
    /\ prev.valid_responses = 0

\* every entry <<low, high>> of the table lies within 1 / Fix below the
\* 2.5th and the 97.5th percentile: cdf(low) <= 0.025 < cdf(low + 1 / Fix)
\* and cdf(high) <= 0.975 < cdf(high + 1 / Fix)
BetaQuantilesExact ==
    \A ab \in DOMAIN BetaIntervals :
      LET below(p, q) ==
              BigLeq(BigMul(BetaCdf(ab[1], ab[2], p), Fix, 0),
                     BigTimesPow(<<q>>, Fix, ab[1] + ab[2] - 1))
          low == BetaIntervals[ab][1]
          high == BetaIntervals[ab][2]
      IN  /\ below(low, 25) /\ ~below(low + 1, 25)
          /\ below(high, 975) /\ ~below(high + 1, 975)

\* C12 as stated: whenever the statistics are defined,
\* 0 <= low <= estimate <= high <= 100.
C12_IntervalOrder ==
    report.kind = "numeric" =>
      /\ 0 <= report.ci_low
      /\ report.ci_low <= report.yes_percentage
      /\ report.yes_percentage <= report.ci_high
      /\ report.ci_high <= 100 * Fix

\* C12 as amended: whenever the statistics are defined, the estimate is
\* 100 * yes / (yes + no), the bounds are the 2.5th and 97.5th percentiles
\* of Beta(yes + 1, no + 1) times 100 and 0 <= low <= high <= 100; the
\* estimate lies between them when yes >= 1 and no >= 1, above high (at
\* 100) when no = 0 and below low (at 0) when yes = 0.
C12_IntervalOrderInterior ==
    report.kind = "numeric" =>
      /\ BetaQuantilesExact
      /\ yes_count + no_count > 0
      /\ report.yes_percentage = ((yes_count * Fix) \div (yes_count + no_count)) * 100
      /\ report.ci_low = 100 * BetaIntervals[<<yes_count + 1, no_count + 1>>][1]
      /\ report.ci_high = 100 * BetaIntervals[<<yes_count + 1, no_count + 1>>][2]
      /\ 0 <= report.ci_low
      /\ report.ci_low <= report.ci_high
      /\ report.ci_high <= 100 * Fix
      /\ (yes_count >= 1 /\ no_count >= 1) =>
            /\ report.ci_low <= report.yes_percentage
            /\ report.yes_percentage <= report.ci_high
      /\ no_count = 0 =>
            /\ report.yes_percentage = 100 * Fix
            /\ report.ci_high < report.yes_percentage
      /\ yes_count = 0 =>
            /\ report.yes_percentage = 0
            /\ report.ci_low > report.yes_percentage

C12_Witness ==
    /\ pc = "done"
    /\ report.kind = "numeric"
    /\ yes_count = 2
    /\ no_count = 1
    /\ report.yes_percentage = 66600
    /\ report.ci_low = 19400
    /\ report.ci_high = 93200

\* C13: in sequential mode the progress events are (1, n), (2, n), ... in
\* that order, one after each query and before the next query is issued,
\* whether the query failed or not; in parallel mode there is none.
C13_ProgressEvents ==
    /\ use_async => progress = <<>>
    /\ ~use_async =>
         /\ progress = [k \in 1..Len(progress) |-> <<k, num_queries>>]
         /\ pc = "start" => Len(progress) = 0 /\ requests = 0
         /\ pc = "seq_query" => Len(progress) = i /\ requests = i
         /\ pc = "seq_progress" => Len(progress) = i /\ requests = i + 1
         /\ pc \notin {"start", "seq_query", "seq_progress"} =>
              Len(progress) = num_queries /\ requests = num_queries

C13_Witness ==
    /\ ~use_async
    /\ pc = "done"
    /\ num_queries = MaxQueries
    /\ gateway[1].shape = "raise"
    /\ gateway[0].shape = "ok"
    /\ Len(progress) = num_queries
    /\ progress[num_queries] = <<num_queries, num_queries>>
    /\ prev # NoRun

\* C14: a run over the same replies in another order, in the same mode,
\* counts the same yes, no and valid replies and reports the same estimate
\* and the same interval as the run before it.
C14_OrderInvariant ==
    prev # NoRun =>
      /\ prev.mode = (IF use_async THEN "parallel" ELSE "sequential")
      /\ Counted =>
           /\ yes_count = prev.yes_count
           /\ no_count = prev.no_count
           /\ valid_responses = prev.valid_responses
      /\ pc = "done" =>
           /\ report.kind = prev.kind
           /\ report.kind = "numeric" =>
                <<report.yes_percentage, report.ci_low, report.ci_high>>
                  = prev.statistics

C14_Witness ==
    /\ prev # NoRun
    /\ use_async
    /\ pc = "done"
    /\ num_queries = MaxQueries
    /\ raw_responses # prev.raw_responses
    /\ Len(raw_responses) = num_queries
    /\ report.kind = "numeric"
    /\ yes_count = 1
    /\ no_count = 1

\* C15: in parallel mode the dispatcher returns only after every call has
\* run to completion or failure; no call is cancelled in flight.
C15_AllComplete ==
    (use_async /\ pc \notin {"start", "gather"}) =>
      \A k \in Queries : tasks[k] \in {"done", "raised"}

\* C16: yes_count + no_count = valid_responses in every state; wherever the
\* counts stand for the replies received so far, valid_responses is the
\* number of replies counted valid, each of them is counted once, as yes or
\* as no, and a reply counted invalid is counted as neither.
C16_CountsSumToValid ==
    /\ yes_count + no_count = valid_responses
    /\ pc # "count" =>
         LET valid == {k \in 1..Len(raw_responses) :
                          is_valid_response(raw_responses[k], request_explanation)}
             yes == {k \in valid : StartsWith(Lower(raw_responses[k]), Yes)}
             no == {k \in valid : StartsWith(Lower(raw_responses[k]), No)}
         IN  /\ valid_responses = Cardinality(valid)
             /\ yes_count = Cardinality(yes)
             /\ no_count = Cardinality(no)
             /\ yes \cap no = {}
             /\ yes \cup no = valid

C16_Witness ==
    /\ use_async
    /\ Counted
    /\ num_queries = MaxQueries
    /\ Len(raw_responses) = num_queries
    /\ valid_responses = num_queries - 1
    /\ yes_count >= 1
    /\ ~request_explanation

\* C17: a run sends num_queries sampling requests, one per query and no
\* more after a failure, and at most one summarisation request.
C17_SingleAttempt ==
    /\ requests <= num_queries
    /\ summarize_calls <= 1
    /\ pc = "start" => requests = 0
    /\ pc \notin {"start", "seq_query", "seq_progress"} => requests = num_queries
    /\ (~use_async /\ pc = "seq_query") => requests = i
    /\ (~use_async /\ pc = "seq_progress") => requests = i + 1

C17_Witness ==
    /\ ~use_async
    /\ pc = "done"
    /\ num_queries = MaxQueries
    /\ gateway[0].shape = "raise"
    /\ requests = num_queries
    /\ summarize_calls = 1

\* C18: the report never reads explanation_summary before it is assigned:
\* a run that reaches the numeric report with request_explanation true has
\* called the summariser, and the report shows what that call assigned.
C18_SummaryAssigned ==
    /\ crash # "report"
    /\ (pc = "report" /\ has_valid(valid_responses) /\ request_explanation) =>
         /\ summarize_calls = 1
         /\ explanation_summary # Unset
    /\ (report.kind = "numeric" /\ request_explanation) =>
         /\ summarize_calls = 1
         /\ report.summary # Unset
         /\ report.summary = explanation_summary

C18_Witness ==
    /\ pc = "done"
    /\ report.kind = "numeric"
    /\ request_explanation
    /\ valid_responses = 1
    /\ summarize_calls = 1
    /\ report.summary = <<"S">>

\* C19: query_claude_async returns the num_queries reply texts, one per
\* request in request order, when every request succeeded, and the failure
\* value alone when any request raised or came back malformed; never a list
\* with a failure value in it or with fewer entries.
C19_AllOrNothing ==
    /\ crash # "dispatch"
    /\ (use_async /\ (pc = "count" \/ Counted)) =>
         IF \E k \in Queries : Failed(k)
         THEN raw_responses = Chars(Sentinel)
         ELSE /\ Len(raw_responses) = num_queries
              /\ \A k \in Queries :
                   /\ raw_responses[k + 1] = RefTrim(gateway[k].text)
                   /\ raw_responses[k + 1] # Sentinel

C19_Witness ==
    /\ use_async
    /\ pc = "done"
    /\ num_queries = MaxQueries
    /\ gateway[0].shape = "ok"
    /\ gateway[1].shape = "notext"
    /\ \A k \in Queries : tasks[k] = "done"
    /\ raw_responses = Chars(Sentinel)

====
